---------------------------- MODULE Spec2Model ----------------------------
(***************************************************************************)
(* A model of the CHIP-8 interpreter of src/src/chip8.rs: the machine      *)
(* state of struct Chip8, the decoder decode_opcode, and the cycle driver  *)
(* Chip8::cycle with every instruction handler, driven by the host loop of *)
(* src/src/main.rs and by keypad writes through Chip8::set_keypad.         *)
(*                                                                         *)
(* Encoding of the two large arrays (exact, only more compact):            *)
(*   mem   : [u8; 4096]   is the finite map from the addresses that hold a *)
(*           nonzero byte to that byte; an absent address holds 0.         *)
(*   video : [bool; 2048] is the set of the indices whose cell is true.    *)
(* A Rust panic (unwrap on None, an index out of bounds, an arithmetic     *)
(* overflow in a build with overflow checks) ends the process: it is the   *)
(* outcome "Panic", after which nothing runs.                              *)
(***************************************************************************)
EXTENDS Integers, Sequences, FiniteSets, TLC

VARIABLES mem, reg, i, pc, stack, video, keypad, dt, st, rng,
          ret, raw_opcode, op_pc

vars == <<mem, reg, i, pc, stack, video, keypad, dt, st, rng,
          ret, raw_opcode, op_pc>>

(***************************************************************************)
(* Program constants.                                                      *)
(***************************************************************************)
VIDEO_WIDTH == 64
VIDEO_HEIGHT == 32
MEMORY_SIZE == 4096
MEMORY_START == 512
NUM_KEYS == 16
NUM_REGS == 16
FONTSET_START_ADDRESS == 80
FONTSET_SIZE == 5 * 16
\* The capacity the repository's first draft of the machine gives the stack.
STACK_SIZE == 16

FONTSET ==
    << 240, 144, 144, 144, 240,
        32,  96,  32,  32, 112,
       240,  16, 240, 128, 240,
       240,  16, 240,  16, 240,
       144, 144, 240,  16,  16,
       240, 128, 240,  16, 240,
       240, 128, 240, 144, 240,
       240,  16,  32,  64,  64,
       240, 144, 240, 144, 240,
       240, 144, 240,  16, 240,
       240, 144, 240, 144, 144,
       224, 144, 224, 144, 224,
       240, 128, 128, 128, 240,
       224, 144, 144, 144, 224,
       240, 128, 240, 128, 240,
       240, 128, 240, 128, 128 >>

(***************************************************************************)
(* Bounds of the model.                                                    *)
(***************************************************************************)
\* The host stops calling cycle once the call stack holds this many entries.
MaxStackDepth == 17
\* The input collaborator writes the keys 0..MaxKey and the last key.
MaxKey == 1
\* The injected random source returns 0..MaxRngLow or one of the bytes of
\* RngEdge.
MaxRngLow == 1

(***************************************************************************)
(* Machine integers.                                                       *)
(***************************************************************************)
U8 == 256
U16 == 65536

Pow2(k) == 2 ^ k

Bit(v, k) == (v \div Pow2(k)) % 2

\* Bitwise operations on 8-bit values.
BitOr(a, b) ==
    LET B(k) == IF Bit(a, k) = 1 \/ Bit(b, k) = 1 THEN Pow2(k) ELSE 0
    IN  B(0) + B(1) + B(2) + B(3) + B(4) + B(5) + B(6) + B(7)

BitAnd(a, b) ==
    LET B(k) == IF Bit(a, k) = 1 /\ Bit(b, k) = 1 THEN Pow2(k) ELSE 0
    IN  B(0) + B(1) + B(2) + B(3) + B(4) + B(5) + B(6) + B(7)

BitXor(a, b) ==
    LET B(k) == IF Bit(a, k) # Bit(b, k) THEN Pow2(k) ELSE 0
    IN  B(0) + B(1) + B(2) + B(3) + B(4) + B(5) + B(6) + B(7)

(***************************************************************************)
(* Memory: the map of the nonzero bytes.                                   *)
(***************************************************************************)
MemRead(m, a) == IF a \in DOMAIN m THEN m[a] ELSE 0

MemWrite(m, a, v) ==
    IF v = 0
    THEN [b \in DOMAIN m \ {a} |-> m[b]]
    ELSE [b \in DOMAIN m \cup {a} |-> IF b = a THEN v ELSE m[b]]

\* mem[start .. start + Len(data)].copy_from_slice(data)
CopyFromSlice(m, start, data) ==
    LET span == start .. (start + Len(data) - 1)
        nz   == {a \in span : data[a - start + 1] # 0}
    IN  [a \in (DOMAIN m \ span) \cup nz |->
            IF a \in span THEN data[a - start + 1] ELSE m[a]]

(***************************************************************************)
(* decode_opcode: the tagged instruction of a 16-bit word.                 *)
(***************************************************************************)
\* Invalid carrying the 12-bit address field in place of the raw word.
InvalidMasked(op) == [name |-> "Invalid", op |-> op % 4096]

Invalid(op) == [name |-> "Invalid", op |-> op]

decode_opcode(op) ==
    LET b1  == (op \div 4096) % 16
        x   == (op \div 256) % 16
        y   == (op \div 16) % 16
        nnn == op % 4096
        nn  == op % 256
        n   == op % 16
    IN  CASE b1 = 0 ->
               (CASE nnn = 224 -> [name |-> "ClearScreen"]
                  [] nnn = 238 -> [name |-> "Return"]
                  [] OTHER     -> Invalid(op))
          [] b1 = 1  -> [name |-> "Jump", nnn |-> nnn]
          [] b1 = 2  -> [name |-> "Call", nnn |-> nnn]
          [] b1 = 3  -> [name |-> "SkipEqualByte", x |-> x, nn |-> nn]
          [] b1 = 4  -> [name |-> "SkipNotEqualByte", x |-> x, nn |-> nn]
          [] b1 = 5  -> [name |-> "SkipEqual", x |-> x, y |-> y]
          [] b1 = 6  -> [name |-> "LoadByte", x |-> x, nn |-> nn]
          [] b1 = 7  -> [name |-> "AddByte", x |-> x, nn |-> nn]
          [] b1 = 8  ->
               (CASE n = 0  -> [name |-> "Load", x |-> x, y |-> y]
                  [] n = 1  -> [name |-> "Or", x |-> x, y |-> y]
                  [] n = 2  -> [name |-> "And", x |-> x, y |-> y]
                  [] n = 3  -> [name |-> "Xor", x |-> x, y |-> y]
                  [] n = 4  -> [name |-> "Add", x |-> x, y |-> y]
                  [] n = 5  -> [name |-> "Sub", x |-> x, y |-> y]
                  [] n = 6  -> [name |-> "ShiftRight", x |-> x]
                  [] n = 7  -> [name |-> "SubN", x |-> x, y |-> y]
                  [] n = 14 -> [name |-> "ShiftLeft", x |-> x]
                  [] OTHER  -> Invalid(op))
          [] b1 = 9  -> [name |-> "SkipNotEqual", x |-> x, y |-> y]
          [] b1 = 10 -> [name |-> "LoadI", nnn |-> nnn]
          [] b1 = 11 -> [name |-> "JumpV0", nnn |-> nnn]
          [] b1 = 12 -> [name |-> "Random", x |-> x, nn |-> nn]
          [] b1 = 13 -> [name |-> "Draw", x |-> x, y |-> y, n |-> n]
          [] b1 = 14 ->
               (CASE nn = 158 -> [name |-> "SkipKeyPress", x |-> x]
                  [] nn = 161 -> [name |-> "SkipKeyNotPress", x |-> x]
                  [] OTHER    -> Invalid(op))
          [] b1 = 15 ->
               (CASE nn = 7   -> [name |-> "LoadDelayTimer", x |-> x]
                  [] nn = 10  -> [name |-> "LoadKeyPress", x |-> x]
                  [] nn = 21  -> [name |-> "LoadDelayTimerSet", x |-> x]
                  [] nn = 24  -> [name |-> "LoadSoundTimer", x |-> x]
                  [] nn = 30  -> [name |-> "AddI", x |-> x]
                  [] nn = 41  -> [name |-> "LoadFont", x |-> x]
                  [] nn = 51  -> [name |-> "LoadBCD", x |-> x]
                  [] nn = 85  -> [name |-> "StoreRegisters", x |-> x]
                  [] nn = 101 -> [name |-> "LoadRegisters", x |-> x]
                  [] OTHER    -> Invalid(op))
          [] OTHER -> Invalid(op)

(***************************************************************************)
(* The machine as one record, the value the handlers transform: the fields *)
(* of struct Chip8 that cycle writes, and panic, set once the handler has  *)
(* panicked (the fields then hold what was written before the panic).      *)
(***************************************************************************)
Machine ==
    [mem |-> mem, reg |-> reg, i |-> i, pc |-> pc, stack |-> stack,
     video |-> video, dt |-> dt, st |-> st, panic |-> FALSE]

Panicked(s) == [s EXCEPT !.panic = TRUE]

SetReg(s, x, v) == [s EXCEPT !.reg[x] = v]

\* if cond { self.pc += 2 }
SkipIf(s, cond) == IF cond THEN [s EXCEPT !.pc = s.pc + 2] ELSE s

(***************************************************************************)
(* The instruction handlers of cycle.  Each takes the machine after the    *)
(* counter has been advanced past the instruction.                         *)
(***************************************************************************)
\* 00E0 - CLS
ExecClearScreen(s) == [s EXCEPT !.video = {}]

\* 00EE - RET: self.pc = self.stack.pop().unwrap()
ExecReturn(s) ==
    IF s.stack = << >>
    THEN Panicked(s)
    ELSE [s EXCEPT !.pc = s.stack[Len(s.stack)],
                   !.stack = SubSeq(s.stack, 1, Len(s.stack) - 1)]

\* ExecJump with the counter advanced after the jump.
ExecJumpPastTarget(s, nnn) == [s EXCEPT !.pc = nnn + 2]

\* 1nnn - JP addr
ExecJump(s, nnn) == [s EXCEPT !.pc = nnn]

\* ExecCall pushing the address of the call itself.
ExecCallPushesOwnAddress(s, nnn) ==
    [s EXCEPT !.stack = Append(s.stack, s.pc - 2), !.pc = nnn]

\* 2nnn - CALL addr: the Vec grows by one entry, whatever its length
ExecCall(s, nnn) == [s EXCEPT !.stack = Append(s.stack, s.pc), !.pc = nnn]

\* 3xkk, 4xkk, 5xy0, 9xy0
ExecSkipEqualByte(s, x, nn) == SkipIf(s, s.reg[x] = nn)

ExecSkipNotEqualByte(s, x, nn) == SkipIf(s, s.reg[x] # nn)

ExecSkipEqual(s, x, y) == SkipIf(s, s.reg[x] = s.reg[y])

ExecSkipNotEqual(s, x, y) == SkipIf(s, s.reg[x] # s.reg[y])

\* 6xkk - LD Vx, byte
ExecLoadByte(s, x, nn) == SetReg(s, x, nn)

\* 7xkk - ADD Vx, byte (wrapping_add)
ExecAddByte(s, x, nn) == SetReg(s, x, (s.reg[x] + nn) % U8)

\* 8xy0 .. 8xy3
ExecLoad(s, x, y) == SetReg(s, x, s.reg[y])

\* ExecOr that also resets VF.
ExecOrResetsFlag(s, x, y) ==
    SetReg(SetReg(s, x, BitOr(s.reg[x], s.reg[y])), 15, 0)

ExecOr(s, x, y) == SetReg(s, x, BitOr(s.reg[x], s.reg[y]))

ExecAnd(s, x, y) == SetReg(s, x, BitAnd(s.reg[x], s.reg[y]))

ExecXor(s, x, y) == SetReg(s, x, BitXor(s.reg[x], s.reg[y]))

\* ExecAdd with the flag written before the result.
ExecAddFlagFirst(s, x, y) ==
    LET sum   == s.reg[x] + s.reg[y]
        res   == sum % U8
        carry == IF sum >= U8 THEN 1 ELSE 0
    IN  SetReg(SetReg(s, 15, carry), x, res)

\* 8xy4 - ADD Vx, Vy: overflowing_add, then the result, then the flag
ExecAdd(s, x, y) ==
    LET sum   == s.reg[x] + s.reg[y]
        res   == sum % U8
        carry == IF sum >= U8 THEN 1 ELSE 0
    IN  SetReg(SetReg(s, x, res), 15, carry)

\* ExecSub with the flag set only when Vx is strictly greater than Vy.
ExecSubStrict(s, x, y) ==
    LET res    == (s.reg[x] - s.reg[y]) % U8
        borrow == s.reg[x] <= s.reg[y]
    IN  SetReg(SetReg(s, x, res), 15, IF borrow THEN 0 ELSE 1)

\* 8xy5 - SUB Vx, Vy: overflowing_sub, then the result, then the flag
ExecSub(s, x, y) ==
    LET res    == (s.reg[x] - s.reg[y]) % U8
        borrow == s.reg[x] < s.reg[y]
    IN  SetReg(SetReg(s, x, res), 15, IF borrow THEN 0 ELSE 1)

\* 8xy7 - SUBN Vx, Vy
ExecSubN(s, x, y) ==
    LET res    == (s.reg[y] - s.reg[x]) % U8
        borrow == s.reg[y] < s.reg[x]
    IN  SetReg(SetReg(s, x, res), 15, IF borrow THEN 0 ELSE 1)

\* 8xy6 - SHR Vx: the flag first, then Vx is read again and shifted
ExecShiftRight(s, x) ==
    LET s1 == SetReg(s, 15, s.reg[x] % 2)
    IN  SetReg(s1, x, s1.reg[x] \div 2)

\* 8xyE - SHL Vx: the flag first, then Vx is read again and shifted
ExecShiftLeft(s, x) ==
    LET s1 == SetReg(s, 15, (s.reg[x] \div 128) % 2)
    IN  SetReg(s1, x, (s1.reg[x] * 2) % U8)

\* Annn - LD I, addr
ExecLoadI(s, nnn) == [s EXCEPT !.i = nnn]

\* Bnnn - JP V0, addr
ExecJumpV0(s, nnn) == [s EXCEPT !.pc = s.reg[0] + nnn]

\* Cxkk - RND Vx, byte; rnd is the byte (self.rng)() returned
ExecRandom(s, x, nn, rnd) == SetReg(s, x, BitAnd(rnd, nn))

(***************************************************************************)
(* Dxyn - DRW Vx, Vy, nibble.                                              *)
(***************************************************************************)
\* VideoIndex with the column not wrapped.
VideoIndexNoWrap(x, y, dx, dy) ==
    ((y + dy) % VIDEO_HEIGHT) * VIDEO_WIDTH + (x + dx)

\* y * VIDEO_WIDTH + x, for x = (x + dx) % VIDEO_WIDTH, y = (y + dy) % VIDEO_HEIGHT
VideoIndex(x, y, dx, dy) ==
    ((y + dy) % VIDEO_HEIGHT) * VIDEO_WIDTH + ((x + dx) % VIDEO_WIDTH)

\* sprite & (0b1000_0000 >> dx) != 0
SpritePixel(sprite, dx) == Bit(sprite, 7 - dx) = 1

\* The body of the inner loop for one dx: the cell is indexed (bounds
\* checked) whatever the sprite bit is, and toggled when the bit is set.
DrawPixel(s, sprite, x, y, dx, dy) ==
    LET idx == VideoIndex(x, y, dx, dy)
    IN  IF idx >= VIDEO_HEIGHT * VIDEO_WIDTH
        THEN Panicked(s)
        ELSE IF ~SpritePixel(sprite, dx)
        THEN s
        ELSE LET s1 == IF idx \in s.video THEN SetReg(s, 15, 1) ELSE s
             IN  [s1 EXCEPT !.video =
                     IF idx \in s.video THEN s.video \ {idx}
                                        ELSE s.video \cup {idx}]

\* for dx in 0..8u16
RECURSIVE DrawRow(_, _, _, _, _, _)
DrawRow(s, sprite, x, y, dy, dx) ==
    IF dx >= 8 \/ s.panic
    THEN s
    ELSE DrawRow(DrawPixel(s, sprite, x, y, dx, dy), sprite, x, y, dy, dx + 1)

\* for dy in 0..height: the sprite byte is read at mem[i + dy]
RECURSIVE DrawRows(_, _, _, _, _)
DrawRows(s, x, y, height, dy) ==
    IF dy >= height \/ s.panic
    THEN s
    ELSE IF s.i + dy >= MEMORY_SIZE
    THEN Panicked(s)
    ELSE DrawRows(DrawRow(s, MemRead(s.mem, s.i + dy), x, y, dy, 0),
                  x, y, height, dy + 1)

\* ExecDraw with VF left as it was.
ExecDrawNoReset(s, x, y, n) ==
    DrawRows(s, s.reg[x], s.reg[y], n, 0)

\* The coordinates are read, then VF is cleared, then the rows are drawn.
ExecDraw(s, x, y, n) ==
    DrawRows(SetReg(s, 15, 0), s.reg[x], s.reg[y], n, 0)

(***************************************************************************)
(* The keypad and timer instructions.                                      *)
(***************************************************************************)
\* Ex9E - SKP Vx: self.keypad[self.reg[x] as usize]
ExecSkipKeyPress(s, kp, x) ==
    IF s.reg[x] >= NUM_KEYS THEN Panicked(s) ELSE SkipIf(s, kp[s.reg[x]])

\* ExA1 - SKNP Vx
ExecSkipKeyNotPress(s, kp, x) ==
    IF s.reg[x] >= NUM_KEYS THEN Panicked(s) ELSE SkipIf(s, ~kp[s.reg[x]])

\* Fx07 - LD Vx, DT
ExecLoadDelayTimer(s, x) == SetReg(s, x, s.dt)

\* self.keypad.iter().position(|&key| key): the keys that are down; the
\* position is the least of them
Pressed(kp) == {k \in 0 .. NUM_KEYS - 1 : kp[k]}

KeyPosition(kp) == CHOOSE k \in Pressed(kp) : \A j \in Pressed(kp) : k <= j

\* ExecLoadKeyPress with the counter left past the instruction.
ExecLoadKeyPressNoRewind(s, kp, x) ==
    IF Pressed(kp) # {}
    THEN SetReg(s, x, KeyPosition(kp))
    ELSE s

\* Fx0A - LD Vx, K
ExecLoadKeyPress(s, kp, x) ==
    IF Pressed(kp) # {}
    THEN SetReg(s, x, KeyPosition(kp))
    ELSE [s EXCEPT !.pc = s.pc - 2]

\* Fx15 - LD DT, Vx
ExecLoadDelayTimerSet(s, x) == [s EXCEPT !.dt = s.reg[x]]

\* Fx18 - LD ST, Vx
ExecLoadSoundTimer(s, x) == [s EXCEPT !.st = s.reg[x]]

(***************************************************************************)
(* The index-register and memory instructions.  oc: the build checks       *)
(* arithmetic overflow (it panics) or does not (the u16 wraps).            *)
(***************************************************************************)
\* Fx1E - ADD I, Vx: self.i += self.reg[x] as u16
ExecAddI(s, x, oc) ==
    IF s.i + s.reg[x] >= U16 /\ oc
    THEN Panicked(s)
    ELSE [s EXCEPT !.i = (s.i + s.reg[x]) % U16]

\* Fx29 - LD F, Vx
ExecLoadFont(s, x) == [s EXCEPT !.i = FONTSET_START_ADDRESS + s.reg[x] * 5]

\* self.mem[(self.i + k) as usize] = v
StoreAt(s, k, v, oc) ==
    IF s.panic THEN s
    ELSE IF s.i + k >= U16 /\ oc THEN Panicked(s)
    ELSE IF (s.i + k) % U16 >= MEMORY_SIZE THEN Panicked(s)
    ELSE [s EXCEPT !.mem = MemWrite(s.mem, (s.i + k) % U16, v)]

\* ExecLoadBCD with the digits in the opposite order.
ExecLoadBCDReversed(s, x, oc) ==
    LET value == s.reg[x]
        s1 == StoreAt(s, 0, value % 10, oc)
        s2 == StoreAt(s1, 1, (value \div 10) % 10, oc)
    IN  StoreAt(s2, 2, ((value \div 10) \div 10) % 10, oc)

\* Fx33 - LD B, Vx: ones at I+2, then tens at I+1, then hundreds at I
ExecLoadBCD(s, x, oc) ==
    LET value == s.reg[x]
        s1 == StoreAt(s, 2, value % 10, oc)
        s2 == StoreAt(s1, 1, (value \div 10) % 10, oc)
    IN  StoreAt(s2, 0, ((value \div 10) \div 10) % 10, oc)

\* Fx55 - LD [I], Vx: for v in 0..=x, mem[i as usize + v] = reg[v]
RECURSIVE StoreLoop(_, _, _)
StoreLoop(s, x, v) ==
    IF v > x \/ s.panic
    THEN s
    ELSE IF s.i + v >= MEMORY_SIZE
    THEN Panicked(s)
    ELSE StoreLoop([s EXCEPT !.mem = MemWrite(s.mem, s.i + v, s.reg[v])],
                   x, v + 1)

\* ExecStoreRegisters over the exclusive range 0..x.
ExecStoreRegistersExclusive(s, x) == StoreLoop(s, x - 1, 0)

ExecStoreRegisters(s, x) == StoreLoop(s, x, 0)

\* Fx65 - LD Vx, [I]: for v in 0..=x, reg[v] = mem[i as usize + v]
RECURSIVE LoadLoop(_, _, _)
LoadLoop(s, x, v) ==
    IF v > x \/ s.panic
    THEN s
    ELSE IF s.i + v >= MEMORY_SIZE
    THEN Panicked(s)
    ELSE LoadLoop(SetReg(s, v, MemRead(s.mem, s.i + v)), x, v + 1)

ExecLoadRegisters(s, x) == LoadLoop(s, x, 0)

(***************************************************************************)
(* Chip8::cycle.                                                           *)
(***************************************************************************)
\* The match of cycle, for every variant but Invalid.
Execute(s, opcode, kp, rnd, oc) ==
    CASE opcode.name = "ClearScreen" -> ExecClearScreen(s)
      [] opcode.name = "Return" -> ExecReturn(s)
      [] opcode.name = "Jump" -> ExecJump(s, opcode.nnn)
      [] opcode.name = "Call" -> ExecCall(s, opcode.nnn)
      [] opcode.name = "SkipEqualByte" -> ExecSkipEqualByte(s, opcode.x, opcode.nn)
      [] opcode.name = "SkipNotEqualByte" -> ExecSkipNotEqualByte(s, opcode.x, opcode.nn)
      [] opcode.name = "SkipEqual" -> ExecSkipEqual(s, opcode.x, opcode.y)
      [] opcode.name = "LoadByte" -> ExecLoadByte(s, opcode.x, opcode.nn)
      [] opcode.name = "AddByte" -> ExecAddByte(s, opcode.x, opcode.nn)
      [] opcode.name = "Load" -> ExecLoad(s, opcode.x, opcode.y)
      [] opcode.name = "Or" -> ExecOr(s, opcode.x, opcode.y)
      [] opcode.name = "And" -> ExecAnd(s, opcode.x, opcode.y)
      [] opcode.name = "Xor" -> ExecXor(s, opcode.x, opcode.y)
      [] opcode.name = "Add" -> ExecAdd(s, opcode.x, opcode.y)
      [] opcode.name = "Sub" -> ExecSub(s, opcode.x, opcode.y)
      [] opcode.name = "ShiftRight" -> ExecShiftRight(s, opcode.x)
      [] opcode.name = "SubN" -> ExecSubN(s, opcode.x, opcode.y)
      [] opcode.name = "ShiftLeft" -> ExecShiftLeft(s, opcode.x)
      [] opcode.name = "SkipNotEqual" -> ExecSkipNotEqual(s, opcode.x, opcode.y)
      [] opcode.name = "LoadI" -> ExecLoadI(s, opcode.nnn)
      [] opcode.name = "JumpV0" -> ExecJumpV0(s, opcode.nnn)
      [] opcode.name = "Random" -> ExecRandom(s, opcode.x, opcode.nn, rnd)
      [] opcode.name = "Draw" -> ExecDraw(s, opcode.x, opcode.y, opcode.n)
      [] opcode.name = "SkipKeyPress" -> ExecSkipKeyPress(s, kp, opcode.x)
      [] opcode.name = "SkipKeyNotPress" -> ExecSkipKeyNotPress(s, kp, opcode.x)
      [] opcode.name = "LoadDelayTimer" -> ExecLoadDelayTimer(s, opcode.x)
      [] opcode.name = "LoadKeyPress" -> ExecLoadKeyPress(s, kp, opcode.x)
      [] opcode.name = "LoadDelayTimerSet" -> ExecLoadDelayTimerSet(s, opcode.x)
      [] opcode.name = "LoadSoundTimer" -> ExecLoadSoundTimer(s, opcode.x)
      [] opcode.name = "AddI" -> ExecAddI(s, opcode.x, oc)
      [] opcode.name = "LoadFont" -> ExecLoadFont(s, opcode.x)
      [] opcode.name = "LoadBCD" -> ExecLoadBCD(s, opcode.x, oc)
      [] opcode.name = "StoreRegisters" -> ExecStoreRegisters(s, opcode.x)
      [] opcode.name = "LoadRegisters" -> ExecLoadRegisters(s, opcode.x)

\* if self.dt > 0 { self.dt -= 1 }  if self.st > 0 { self.st -= 1 }
TickTimers(s) ==
    [s EXCEPT !.dt = IF s.dt > 0 THEN s.dt - 1 ELSE s.dt,
              !.st = IF s.st > 0 THEN s.st - 1 ELSE s.st]

\* fetch_opcode indexes mem[pc] and mem[pc + 1]
FetchInBounds(s) == s.pc + 1 < MEMORY_SIZE

fetch_opcode(s) == MemRead(s.mem, s.pc) * 256 + MemRead(s.mem, s.pc + 1)

\* The values cycle hands back, and the end of the process by a panic.
Ok == [tag |-> "Ok"]

InvalidInstruction(op) == [error |-> "InvalidInstruction", op |-> op]

Err(e) == [tag |-> "Err", err |-> e]

Panic == [tag |-> "Panic"]

\* cycle returning the error before the counter is advanced.
cycleRetryInvalid(s, kp, rnd, oc) ==
    IF ~FetchInBounds(s)
    THEN [s |-> Panicked(s), ret |-> Panic, raw_opcode |-> -1]
    ELSE LET raw    == fetch_opcode(s)
             opcode == decode_opcode(raw)
             s1     == [s EXCEPT !.pc = s.pc + 2]
         IN  IF opcode.name = "Invalid"
             THEN [s |-> s, ret |-> Err(InvalidInstruction(raw)),
                   raw_opcode |-> raw]
             ELSE LET s2 == Execute(s1, opcode, kp, rnd, oc)
                  IN  IF s2.panic
                      THEN [s |-> s2, ret |-> Panic, raw_opcode |-> raw]
                      ELSE [s |-> TickTimers(s2), ret |-> Ok,
                            raw_opcode |-> raw]

\* One call of cycle on machine s: the machine it leaves, what it returns,
\* and the word it fetched (-1 when the fetch itself panicked).
cycle(s, kp, rnd, oc) ==
    IF ~FetchInBounds(s)
    THEN [s |-> Panicked(s), ret |-> Panic, raw_opcode |-> -1]
    ELSE LET raw    == fetch_opcode(s)
             opcode == decode_opcode(raw)
             s1     == [s EXCEPT !.pc = s.pc + 2]
         IN  IF opcode.name = "Invalid"
             THEN [s |-> s1, ret |-> Err(InvalidInstruction(raw)),
                   raw_opcode |-> raw]
             ELSE LET s2 == Execute(s1, opcode, kp, rnd, oc)
                  IN  IF s2.panic
                      THEN [s |-> s2, ret |-> Panic, raw_opcode |-> raw]
                      ELSE [s |-> TickTimers(s2), ret |-> Ok,
                            raw_opcode |-> raw]

(***************************************************************************)
(* Program images.  W(a, b, c, d) is the instruction word of four nibbles; *)
(* a ROM file is the big-endian bytes of its words.                        *)
(***************************************************************************)
W(a, b, c, d) == a * 4096 + b * 256 + c * 16 + d

RomBytes(words) ==
    [k \in 1 .. 2 * Len(words) |->
        IF k % 2 = 1 THEN words[(k + 1) \div 2] \div 256
                     ELSE words[k \div 2] % 256]

\* 1nnn for the address of the word number k (from 0) of the ROM: placed
\* at that word, the program stays there.
JumpTo(k) == W(1, 0, 0, 0) + MEMORY_START + 2 * k

\* V0 = 3, DT = V0, wait for a key into Vx, stay.
KeyWaitRoms ==
    { << W(6, 0, 0, 3), W(15, 0, 1, 5), W(15, x, 0, 10), JumpTo(3) >> :
        x \in {0, 7, 15} }

\* V0 = 5, DT = V0, ST = V0, then words of no recognised form (among them
\* the legacy system call 0123), clear screen, stay.
TimerRom ==
    << W(6, 0, 0, 5), W(15, 0, 1, 5), W(15, 0, 1, 8), W(0, 0, 0, 0),
       W(0, 1, 2, 3), W(8, 0, 0, 8), W(14, 0, 0, 0), W(15, 0, 15, 15),
       W(0, 0, 14, 0), JumpTo(9) >>

\* A subroutine that calls itself.
CallRom == << W(2, 2, 0, 0) >>

\* A return with nothing to return to.
ReturnRom == << W(0, 0, 14, 14) >>

\* A call, the return from it, stay.
CallReturnRom == << W(2, 2, 0, 4), JumpTo(1), W(0, 0, 14, 14) >>

\* A call of a subroutine that calls a second one; both return; stay.
NestedCallRom ==
    << W(2, 2, 0, 6), JumpTo(1), W(0, 0, 0, 0), W(2, 2, 0, 10),
       W(0, 0, 14, 14), W(0, 0, 14, 14) >>

\* V0 = 255, jump to V0 + 0xFFF.
JumpV0Rom == << W(6, 0, 15, 15), W(11, 15, 15, 15) >>

\* A jump to the last word of the memory, which holds 0000.
JumpEndRom == << W(1, 15, 15, 14) >>

\* Vx = kk, skip if the key Vx is (or is not) down, stay twice.
SkipKeyRoms ==
    { << W(6, 3, 0, 0) + kk, W(14, 3, 0, 0) + nn, JumpTo(2), JumpTo(3) >> :
        kk \in {1, 15, 16, 255}, nn \in {158, 161} }

\* Clear the screen, then jump to the jump itself.
ClsLoopRom == << W(0, 0, 14, 0), W(1, 2, 0, 2) >>

ControlRoms ==
    KeyWaitRoms \cup SkipKeyRoms \cup
    {TimerRom, CallRom, ReturnRom, CallReturnRom, NestedCallRom, JumpV0Rom,
     JumpEndRom, ClsLoopRom}

\* Vx = random, Vy = random, one register-to-register instruction, stay.
AluRoms ==
    { << W(12, x, 15, 15), W(12, y, 15, 15), W(8, x, y, n), JumpTo(3) >> :
        x \in 0 .. NUM_REGS - 1, y \in 0 .. NUM_REGS - 1,
        n \in {4, 5, 6, 7, 14} }

\* The sprite rows a drawing ROM carries behind its code.
SpriteData == << W(15, 15, 8, 1), W(0, 1, 3, 12) >>

\* Vx = random, Vy = random, I = a glyph of the font or the sprite behind
\* the code, the same draw three times, stay.
DrawRoms ==
    { << W(12, xy[1], 15, 15), W(12, xy[2], 15, 15), W(10, 0, 0, 0) + a,
         W(13, xy[1], xy[2], n), W(13, xy[1], xy[2], n),
         W(13, xy[1], xy[2], n), JumpTo(6) >> \o SpriteData :
        xy \in {<<0, 1>>, <<2, 2>>, <<15, 3>>},
        a \in {FONTSET_START_ADDRESS, MEMORY_START + 14},
        n \in 0 .. 15 }

\* The values the memory ROMs put into the register a handler reads.
ByteValues == 0 .. U8 - 1

\* The index values of the memory ROMs: inside the program area, the last
\* three bytes of the memory, and the last two, from where I + 2 is outside.
IndexValues == {768, MEMORY_SIZE - 3, MEMORY_SIZE - 2, MEMORY_SIZE - 1}

\* Vx = v, I = a, decimal digits of Vx to I.., stay.
BcdRoms ==
    { << W(6, x, 0, 0) + v, W(10, 0, 0, 0) + a, W(15, x, 3, 3), JumpTo(3) >> :
        x \in {0, 15}, v \in ByteValues, a \in IndexValues }

\* V0 = 0x11, V1 = random, VE = 0x22, VF = 0x77, I = a, store V0..Vx, new
\* values for V0, V1 and VF, load V0..Vx, stay.
BlockRoms ==
    { << W(6, 0, 1, 1), W(12, 1, 15, 15), W(6, 14, 2, 2), W(6, 15, 7, 7),
         W(10, 0, 0, 0) + a, W(15, x, 5, 5), W(6, 0, 0, 0), W(6, 1, 0, 9),
         W(6, 15, 0, 1), W(15, x, 6, 5), JumpTo(10) >> :
        x \in 0 .. NUM_REGS - 1, a \in IndexValues \cup {MEMORY_SIZE - 16} }

\* I = 0xFFE, draw two rows of the sprite at I; I = 0xFFF + V0 (V0 random);
\* I = glyph address of V0, draw one row there.
IndexRoms ==
    { << W(10, 15, 15, 14), W(13, 0, 0, 1) + n, JumpTo(2) >> : n \in {0, 1} }
    \cup
    { << W(12, 0, 15, 15), W(15, 0, 2, 9), W(15, 0, 2, 9), W(13, 1, 1, 1),
         JumpTo(4) >> }

MemRoms == BcdRoms \cup BlockRoms \cup IndexRoms

\* VF = random, V0 = random, V1 = random, then one instruction that is no
\* flag-setting one, on registers 0, 1 and 15, stay.
FlagWords ==
    { W(a, x, 0, 0) + kk : a \in {3, 4, 6, 7, 12}, x \in {0, 15},
                           kk \in {1, 255} }
    \cup { W(a, x, y, n) : a \in {8}, x \in {0, 15}, y \in {1, 15},
                           n \in {0, 1, 2, 3} }
    \cup { W(a, x, y, 0) : a \in {5, 9}, x \in {0, 15}, y \in {1, 15} }
    \cup { W(15, x, 0, 0) + nn : x \in {0, 15},
                                 nn \in {7, 10, 21, 24, 30, 41, 51, 85, 101} }
    \cup { W(0, 0, 14, 0), W(10, 3, 0, 0), W(1, 2, 0, 8), W(2, 2, 0, 8),
           W(14, 0, 10, 1) }

FlagRoms ==
    { << W(12, 15, 15, 15), W(12, 0, 15, 15), W(12, 1, 15, 15), w,
         JumpTo(4), JumpTo(5) >> : w \in FlagWords }

\* One instruction word, any of the 65536.
WordRoms == { << w >> : w \in 0 .. U16 - 1 }

(***************************************************************************)
(* The state after Chip8::new(rng) and load_rom of a program image.        *)
(***************************************************************************)
RngEdge == {63, 128, 255}

RngBytes == (0 .. MaxRngLow) \cup RngEdge

NoMem == [a \in {} |-> 0]

new(rnd) ==
    [mem |-> CopyFromSlice(NoMem, FONTSET_START_ADDRESS, FONTSET),
     reg |-> [r \in 0 .. NUM_REGS - 1 |-> 0],
     i |-> 0, pc |-> MEMORY_START, stack |-> << >>, video |-> {},
     keypad |-> [k \in 0 .. NUM_KEYS - 1 |-> FALSE],
     dt |-> 0, st |-> 0, rng |-> rnd]

load_rom(c, data) ==
    [c EXCEPT !.mem = CopyFromSlice(c.mem, MEMORY_START, data)]

\* The machine main constructs, before a program is loaded.
PowerOn == new(RngBytes)

Boot(roms) ==
    \E words \in roms :
        LET c == load_rom(PowerOn, RomBytes(words))
        IN  /\ mem = c.mem
            /\ reg = c.reg
            /\ i = c.i
            /\ pc = c.pc
            /\ stack = c.stack
            /\ video = c.video
            /\ keypad = c.keypad
            /\ dt = c.dt
            /\ st = c.st
            /\ rng = c.rng
            /\ ret = [tag |-> "None"]
            /\ raw_opcode = -1
            /\ op_pc = -1

Init == Boot(ControlRoms)

InitAlu == Boot(AluRoms)

InitDraw == Boot(DrawRoms)

InitMem == Boot(MemRoms)

InitFlag == Boot(FlagRoms)

InitWord == Boot(WordRoms)

(***************************************************************************)
(* The actions: the host loop's call of cycle, and a keypad write.         *)
(***************************************************************************)
\* The instruction the next cycle decodes, when its fetch is in bounds.
NextOpcode ==
    IF FetchInBounds(Machine) THEN decode_opcode(fetch_opcode(Machine))
                              ELSE [name |-> "None"]

\* The random source is called by Cxkk alone.
RngChoices == IF NextOpcode.name = "Random" THEN rng ELSE {0}

\* Overflow checks matter to the two handlers that add in u16.
OverflowChoices ==
    IF NextOpcode.name \in {"AddI", "LoadBCD"} THEN BOOLEAN ELSE {TRUE}

Cycle ==
    /\ ret.tag # "Panic"
    /\ ~(NextOpcode.name = "Call" /\ Len(stack) >= MaxStackDepth)
    /\ \E rnd \in RngChoices, oc \in OverflowChoices :
          LET out == cycle(Machine, keypad, rnd, oc)
          IN  /\ mem' = out.s.mem
              /\ reg' = out.s.reg
              /\ i' = out.s.i
              /\ pc' = out.s.pc
              /\ stack' = out.s.stack
              /\ video' = out.s.video
              /\ dt' = out.s.dt
              /\ st' = out.s.st
              /\ ret' = out.ret
              /\ raw_opcode' = out.raw_opcode
              /\ op_pc' = pc
    /\ UNCHANGED <<keypad, rng>>

KeysUsed == (0 .. MaxKey) \cup {NUM_KEYS - 1}

set_keypad(key, value) ==
    /\ ret.tag # "Panic"
    /\ keypad' = [keypad EXCEPT ![key] = value]
    /\ UNCHANGED <<mem, reg, i, pc, stack, video, dt, st, rng, ret,
                   raw_opcode, op_pc>>

SetKeypad == \E key \in KeysUsed, value \in BOOLEAN : set_keypad(key, value)

Next == Cycle \/ SetKeypad

\* The host of src/src/main.rs, which never writes the keypad.
NextCpu == Cycle

Spec == Init /\ [][Next]_vars

SpecAlu == InitAlu /\ [][NextCpu]_vars

SpecDraw == InitDraw /\ [][NextCpu]_vars

SpecMem == InitMem /\ [][NextCpu]_vars

SpecFlag == InitFlag /\ [][NextCpu]_vars

\* A host that calls cycle once.
NextOnce == ret.tag = "None" /\ Cycle

SpecWord == InitWord /\ [][NextOnce]_vars

(***************************************************************************)
(* Properties.  A step that leaves the keypad alone and changes the state  *)
(* is a call of cycle; NextOpcode, reg, pc, ... are those before the call  *)
(* and the primed ones those after it.                                     *)
(***************************************************************************)
CycleStep == keypad' = keypad

\* Every register but those of the set rs keeps its value.
OtherRegsKept(rs) ==
    \A r \in (0 .. NUM_REGS - 1) \ rs : reg'[r] = reg[r]

LowestPressed ==
    CHOOSE k \in 0 .. NUM_KEYS - 1 :
        keypad[k] /\ \A j \in 0 .. NUM_KEYS - 1 : j < k => ~keypad[j]

\* C1: a cycle that executes the key-wait Fx0A fetched at p while no key is
\* pressed leaves pc = p, the registers and the memory as they were, so the
\* next cycle executes it again; a cycle that executes it while some key is
\* pressed puts the lowest pressed key's index into Vx and leaves pc = p + 2.
C1_KeyWait ==
    [][(CycleStep /\ NextOpcode.name = "LoadKeyPress") =>
          IF \A k \in 0 .. NUM_KEYS - 1 : ~keypad[k]
          THEN /\ pc' = pc
               /\ reg' = reg
               /\ mem' = mem
               /\ ret'.tag = "Ok"
          ELSE /\ reg'[NextOpcode.x] = LowestPressed
               /\ OtherRegsKept({NextOpcode.x})
               /\ pc' = pc + 2
               /\ ret'.tag = "Ok"]_vars

\* C1 witness: the key-wait into V7 has completed with keys 1 and 15 down
\* (V7 = 1) after it had waited long enough for the delay timer to run out.
C1_Witness ==
    /\ raw_opcode = W(15, 7, 0, 10)
    /\ ret.tag = "Ok"
    /\ pc = op_pc + 2
    /\ reg[7] = 1
    /\ keypad[1] /\ keypad[15] /\ ~keypad[0]
    /\ dt = 0

\* The timer value an instruction leaves before the cycle's decrement.
AppliedTimer(setter, timer) ==
    IF NextOpcode.name = setter THEN reg[NextOpcode.x] ELSE timer

Decremented(t) == IF t > 0 THEN t - 1 ELSE 0

\* C2: every call of cycle that returns, whatever word it fetched, leaves
\* each timer one below the value the instruction left it, or at 0.
C2_TimersEveryCycle ==
    [][(CycleStep /\ ret'.tag \in {"Ok", "Err"}) =>
          /\ dt' = Decremented(AppliedTimer("LoadDelayTimerSet", dt))
          /\ st' = Decremented(AppliedTimer("LoadSoundTimer", st))]_vars

\* C3: after a cycle whose word decodes to Invalid, cycle has returned an
\* error that carries the raw opcode and the counter it was fetched at.
C3_InvalidReported ==
    (raw_opcode >= 0 /\ decode_opcode(raw_opcode).name = "Invalid") =>
        /\ ret.tag = "Err"
        /\ ret.err.op = raw_opcode
        /\ "pc" \in DOMAIN ret.err
        /\ ret.err.pc = op_pc

\* C4: after 8xy6 VF is bit 0 of the old Vx and after 8xyE VF is bit 7 of
\* the old Vx, for every x, 15 included; for x other than 15, Vx is the old
\* value halved, or doubled modulo 256; no other register changes.
C4_ShiftFlags ==
    [][(CycleStep /\ NextOpcode.name \in {"ShiftRight", "ShiftLeft"}) =>
          LET x == NextOpcode.x
              v == reg[x]
          IN  /\ OtherRegsKept({x, 15})
              /\ NextOpcode.name = "ShiftRight" =>
                    /\ reg'[15] = v % 2
                    /\ x # 15 => reg'[x] = v \div 2
              /\ NextOpcode.name = "ShiftLeft" =>
                    /\ reg'[15] = (v \div 128) % 2
                    /\ x # 15 => reg'[x] = (2 * v) % 256]_vars

\* C5: after 8xy4, for the old values a of Vx and b of Vy, VF is 1 when
\* a + b > 255 and 0 otherwise, and Vx is (a + b) mod 256 unless x is 15.
C5_AddCarry ==
    [][(CycleStep /\ NextOpcode.name = "Add") =>
          LET x == NextOpcode.x
              a == reg[x]
              b == reg[NextOpcode.y]
          IN  /\ reg'[15] = (IF a + b > 255 THEN 1 ELSE 0)
              /\ x # 15 => reg'[x] = (a + b) % 256
              /\ OtherRegsKept({x, 15})]_vars

\* C5 witness: ADD V0, VF has carried: the sum was exactly 256.
C5_Witness ==
    /\ raw_opcode = W(8, 0, 15, 4)
    /\ ret.tag = "Ok"
    /\ reg[15] = 1
    /\ reg[0] = 0

\* C6: after 8xy5, VF is 1 iff a >= b and Vx is (a - b) mod 256 unless x is
\* 15; after 8xy7, VF is 1 iff b >= a and Vx is (b - a) mod 256 unless x is
\* 15; a and b are the old values of Vx and Vy.
C6_SubBorrow ==
    [][(CycleStep /\ NextOpcode.name \in {"Sub", "SubN"}) =>
          LET x == NextOpcode.x
              a == reg[x]
              b == reg[NextOpcode.y]
              minuend == IF NextOpcode.name = "Sub" THEN a ELSE b
              subtrahend == IF NextOpcode.name = "Sub" THEN b ELSE a
              diff == minuend - subtrahend
          IN  /\ reg'[15] = (IF minuend >= subtrahend THEN 1 ELSE 0)
              /\ x # 15 =>
                    reg'[x] = (IF diff >= 0 THEN diff ELSE diff + 256)
              /\ OtherRegsKept({x, 15})]_vars

\* C6 witness: SUB V1, V2 has borrowed: 1 - 255 left 2 in V1 and 0 in VF.
C6_Witness ==
    /\ raw_opcode = W(8, 1, 2, 5)
    /\ ret.tag = "Ok"
    /\ reg[1] = 2
    /\ reg[2] = 255
    /\ reg[15] = 0

\* The cells a draw of the next instruction is to toggle: for each set bit
\* dx (most significant first) of sprite row dy, the cell at column
\* (Vx + dx) mod 64 of row (Vy + dy) mod 32.
SpriteCells ==
    LET vx == reg[NextOpcode.x]
        vy == reg[NextOpcode.y]
    IN  { ((vy + dy) % 32) * 64 + ((vx + dx) % 64) :
            <<dy, dx>> \in
              { p \in (0 .. NextOpcode.n - 1) \X (0 .. 7) :
                  (MemRead(mem, i + p[1]) \div (2 ^ (7 - p[2]))) % 2 = 1 } }

\* The sprite rows of the next draw lie inside the memory.
SpriteInMemory == i + NextOpcode.n <= 4096

\* C7: a draw of a non-empty sprite onto an all-unlit framebuffer leaves
\* VF = 0 and exactly the sprite's cells lit; the same draw onto the
\* framebuffer that holds exactly that sprite at these coordinates leaves
\* VF = 1 and the framebuffer all-unlit; and a draw that meets no lit cell
\* leaves VF = 0 whatever VF was before.
C7_DrawTwice ==
    [][(CycleStep /\ NextOpcode.name = "Draw" /\ SpriteInMemory
          /\ SpriteCells # {}) =>
          /\ video = {} => (reg'[15] = 0 /\ video' = SpriteCells)
          /\ video = SpriteCells => (reg'[15] = 1 /\ video' = {})
          /\ video \cap SpriteCells = {} => reg'[15] = 0]_vars

\* C7 witness: the second of the draws D015 has run at the coordinates of
\* the first: VF = 1 and the framebuffer is all-unlit again.
C7_Witness ==
    /\ raw_opcode = W(13, 0, 1, 5)
    /\ op_pc = MEMORY_START + 8
    /\ ret.tag = "Ok"
    /\ reg[15] = 1
    /\ video = {}

\* C8: a draw whose sprite rows lie inside the memory returns success and
\* toggles exactly the cells (Vx + dx) mod 64, (Vy + dy) mod 32 of the set
\* sprite bits; every lit cell has an index in [0, 2048).
C8_DrawWraps ==
    [][(CycleStep /\ NextOpcode.name = "Draw" /\ SpriteInMemory) =>
          /\ ret'.tag = "Ok"
          /\ video' = (video \ SpriteCells) \cup (SpriteCells \ video)
          /\ \A c \in video' : 0 <= c /\ c < 2048]_vars

\* C8 witness: the first draw D012 of the rows FF, 81 at Vx = 63, Vy = 255
\* has lit columns 63 and 0..6 of row 31 and columns 63 and 6 of row 0.
C8_Witness ==
    /\ raw_opcode = W(13, 0, 1, 2)
    /\ op_pc = MEMORY_START + 6
    /\ i = MEMORY_START + 14
    /\ reg[0] = 63
    /\ reg[1] = 255
    /\ video = {31 * 64 + 63, 63, 6} \cup {31 * 64 + c : c \in 0 .. 6}

\* C9: the call stack never holds more than 16 return addresses.
C9_StackBounded == Len(stack) <= STACK_SIZE

\* C10: a return executed on an empty call stack makes cycle return a typed
\* stack-underflow error to its caller; the process goes on.
C10_ReturnOnEmptyReported ==
    [][(CycleStep /\ NextOpcode.name = "Return" /\ stack = << >>) =>
          /\ ret'.tag = "Err"
          /\ ret'.err.error = "StackUnderflow"]_vars

\* The addresses the next instruction reads or writes relative to I.
IndexedAddresses ==
    CASE NextOpcode.name = "Draw" -> {i + dy : dy \in 0 .. NextOpcode.n - 1}
      [] NextOpcode.name = "LoadBCD" -> {i, i + 1, i + 2}
      [] NextOpcode.name \in {"StoreRegisters", "LoadRegisters"} ->
            {i + k : k \in 0 .. NextOpcode.x}
      [] OTHER -> {}

\* C11: a cycle whose instruction addresses memory relative to I outside
\* the 4096 bytes returns a typed error and leaves memory, registers, I
\* and the framebuffer as they were.
C11_OutOfRangeReported ==
    [][(CycleStep /\ \E a \in IndexedAddresses : a >= 4096) =>
          /\ ret'.tag = "Err"
          /\ mem' = mem
          /\ reg' = reg
          /\ i' = i
          /\ video' = video]_vars

\* C12: in every state the counter is inside the memory, with the second
\* byte of the word to fetch next.
C12_PcInMemory == pc >= 0 /\ pc + 1 < 4096

\* C13: a cycle that executes Ex9E or ExA1 subscripts the keypad with an
\* index in [0, 16), the register file with x in [0, 16), and returns.
C13_KeyIndexInRange ==
    [][(CycleStep /\ NextOpcode.name \in {"SkipKeyPress", "SkipKeyNotPress"})
          => /\ NextOpcode.x \in 0 .. 15
             /\ reg[NextOpcode.x] \in 0 .. 15
             /\ ret'.tag = "Ok"]_vars

\* The words of no known form.
UnknownWord(w) ==
    LET group == w \div 4096
    IN  \/ group = 0 /\ w \notin {224, 238}
        \/ group = 8 /\ (w % 16) \notin {0, 1, 2, 3, 4, 5, 6, 7, 14}
        \/ group = 14 /\ (w % 256) \notin {158, 161}
        \/ group = 15 /\ (w % 256) \notin {7, 10, 21, 24, 30, 41, 51, 85, 101}

\* The bit field of word w that an operand field names.
WordField(w, f) ==
    CASE f = "x" -> (w \div 256) % 16
      [] f = "y" -> (w \div 16) % 16
      [] f = "n" -> w % 16
      [] f = "nn" -> w % 256
      [] f = "nnn" -> w % 4096

\* C14: for the word the cycle fetched, decode_opcode yields Invalid with
\* the raw word exactly when the word has no known form, and otherwise a
\* variant whose operand fields are the bit fields of the word.
C14_DecodeTable ==
    raw_opcode >= 0 =>
        LET d == decode_opcode(raw_opcode)
        IN  IF UnknownWord(raw_opcode)
            THEN d = [name |-> "Invalid", op |-> raw_opcode]
            ELSE /\ d.name # "Invalid"
                 /\ DOMAIN d \subseteq {"name", "x", "y", "n", "nn", "nnn"}
                 /\ \A f \in DOMAIN d \ {"name"} :
                       d[f] = WordField(raw_opcode, f)

\* C14 witness: the word 8AB8 (group 8, low nibble 8) has been fetched and
\* reported as the invalid instruction 8AB8.
C14_Witness ==
    /\ raw_opcode = W(8, 10, 11, 8)
    /\ ret.tag = "Err"
    /\ ret.err.op = W(8, 10, 11, 8)

\* The program 00E0, 1202 is the one loaded.
ClsLoopLoaded ==
    /\ MemRead(mem, 512) = 0 /\ MemRead(mem, 513) = 224
    /\ MemRead(mem, 514) = 18 /\ MemRead(mem, 515) = 2

\* C15: with 00E0 at 0x200 and 1202 at 0x202, from power-on: no cycle fails,
\* after every cycle pc = 0x202, and the framebuffer is all-unlit, the
\* registers and I are 0 and the stack is empty in every state.
C15_ClsLoop ==
    ClsLoopLoaded =>
        /\ ret.tag \in {"None", "Ok"}
        /\ ret.tag = "None" => pc = 512
        /\ ret.tag = "Ok" => pc = 514
        /\ video = {}
        /\ \A r \in 0 .. 15 : reg[r] = 0
        /\ i = 0
        /\ stack = << >>

\* C15 witness: the jump at 0x202 has run and left pc = 0x202.
C15_Witness ==
    /\ ClsLoopLoaded
    /\ raw_opcode = W(1, 2, 0, 2)
    /\ op_pc = 514
    /\ pc = 514
    /\ ret.tag = "Ok"
    /\ video = {}

\* Memories m1 and m2 hold the same byte at every address outside addrs.
MemEqualExcept(m1, m2, addrs) ==
    \A a \in (DOMAIN m1 \cup DOMAIN m2) \ addrs :
        MemRead(m1, a) = MemRead(m2, a)

\* C16: a cycle that executes Fx33 with I + 2 inside the memory returns
\* with the hundreds, tens and ones digits of Vx at I, I+1 and I+2, every
\* other byte, every register and I as they were.
C16_LoadBCD ==
    [][(CycleStep /\ NextOpcode.name = "LoadBCD" /\ i + 2 < 4096) =>
          LET v == reg[NextOpcode.x]
          IN  /\ ret'.tag = "Ok"
              /\ MemRead(mem', i) = v \div 100
              /\ MemRead(mem', i + 1) = (v \div 10) % 10
              /\ MemRead(mem', i + 2) = v % 10
              /\ MemEqualExcept(mem, mem', {i, i + 1, i + 2})
              /\ reg' = reg
              /\ i' = i]_vars

\* C16 witness: FF33 has run with VF = 234 and I = 0x300, leaving 2, 3, 4.
C16_Witness ==
    /\ raw_opcode = W(15, 15, 3, 3)
    /\ ret.tag = "Ok"
    /\ reg[15] = 234
    /\ i = 768
    /\ MemRead(mem, 768) = 2
    /\ MemRead(mem, 769) = 3
    /\ MemRead(mem, 770) = 4

\* C17: a cycle that executes Fx55 (Fx65) with I + x inside the memory
\* copies V0..Vx to (from) memory[I .. I+x] in ascending order, inclusive
\* of x, changing no other byte or register, and leaves I as it was.
C17_BlockTransfer ==
    [][(CycleStep
          /\ NextOpcode.name \in {"StoreRegisters", "LoadRegisters"}
          /\ i + NextOpcode.x < 4096) =>
          LET x == NextOpcode.x
          IN  /\ ret'.tag = "Ok"
              /\ i' = i
              /\ NextOpcode.name = "StoreRegisters" =>
                    /\ \A k \in 0 .. x : MemRead(mem', i + k) = reg[k]
                    /\ MemEqualExcept(mem, mem', {i + k : k \in 0 .. x})
                    /\ reg' = reg
              /\ NextOpcode.name = "LoadRegisters" =>
                    /\ \A k \in 0 .. x : reg'[k] = MemRead(mem, i + k)
                    /\ OtherRegsKept(0 .. x)
                    /\ mem' = mem]_vars

\* C17 witness: FF65 has restored V0, V1 and VF from the block at 0x300
\* that FF55 stored before the registers were overwritten.
C17_Witness ==
    /\ raw_opcode = W(15, 15, 6, 5)
    /\ ret.tag = "Ok"
    /\ i = 768
    /\ reg[0] = 17 /\ MemRead(mem, 768) = 17
    /\ reg[1] = 255 /\ MemRead(mem, 769) = 255
    /\ reg[15] = 119 /\ MemRead(mem, 783) = 119

\* The instructions that set VF as a flag.
FlagSetters == {"Add", "Sub", "SubN", "ShiftRight", "ShiftLeft", "Draw"}

\* The instructions whose destination is the register Vx (V0..Vx for Fx65).
WritesVx ==
    {"LoadByte", "AddByte", "Load", "Or", "And", "Xor", "Random",
     "LoadDelayTimer", "LoadKeyPress", "LoadRegisters"}

\* C18: a cycle changes VF only when its instruction is one of 8xy4, 8xy5,
\* 8xy6, 8xy7, 8xyE, Dxyn, or names VF as its destination; 7xkk leaves
\* (Vx + kk) mod 256 in Vx and every other register as it was.
C18_FlagOnlyByFlagSetters ==
    [][CycleStep =>
          /\ (/\ NextOpcode.name \notin FlagSetters
              /\ ~(NextOpcode.name \in WritesVx /\ NextOpcode.x = 15))
                => reg'[15] = reg[15]
          /\ NextOpcode.name = "AddByte" =>
                /\ reg'[NextOpcode.x] =
                      (reg[NextOpcode.x] + NextOpcode.nn) % 256
                /\ OtherRegsKept({NextOpcode.x})]_vars

\* C18 witness: 8011 has run with V0 = 63, V1 = 128 and VF = 128, leaving
\* V0 = 191 and VF = 128.
C18_Witness ==
    /\ raw_opcode = W(8, 0, 1, 1)
    /\ ret.tag = "Ok"
    /\ reg[0] = 191
    /\ reg[1] = 128
    /\ reg[15] = 128

\* C19: a call pushes the address of the word after it and jumps, a return
\* on a non-empty stack jumps to the last address pushed and removes it,
\* and no other cycle changes the stack.
C19_StackLifo ==
    [][CycleStep =>
          IF NextOpcode.name = "Call"
          THEN /\ stack' = Append(stack, pc + 2)
               /\ pc' = NextOpcode.nnn
          ELSE IF NextOpcode.name = "Return" /\ stack # << >>
          THEN /\ pc' = stack[Len(stack)]
               /\ stack' = SubSeq(stack, 1, Len(stack) - 1)
          ELSE stack' = stack]_vars

\* C19 witness: of two nested calls (from 0x200 and from 0x206) the second
\* return, at 0x208, has come back to 0x202 with the stack empty again.
C19_Witness ==
    /\ raw_opcode = W(0, 0, 14, 14)
    /\ op_pc = 520
    /\ pc = 514
    /\ stack = << >>
    /\ ret.tag = "Ok"

\* C20: a cycle that fetches a word of no known form returns
\* InvalidInstruction with pc advanced by 2 and nothing else changed, and
\* the cycle after an error fetches the word that follows the rejected one.
C20_InvalidSkipped ==
    [][CycleStep =>
          /\ NextOpcode.name = "Invalid" =>
                /\ ret' = Err(InvalidInstruction(fetch_opcode([mem |-> mem, pc |-> pc])))
                /\ pc' = pc + 2
                /\ UNCHANGED <<mem, reg, i, stack, video, dt, st>>
          /\ ret.tag = "Err" => op_pc' = op_pc + 2]_vars

\* C20 witness: the word 0123 at 0x208 has been rejected, leaving pc at
\* 0x20A and both timers where the cycle before left them.
C20_Witness ==
    /\ raw_opcode = W(0, 1, 2, 3)
    /\ op_pc = 520
    /\ pc = 522
    /\ ret.tag = "Err"
    /\ dt = 3
    /\ st = 4

============================================================================
